---- MODULE Spec2Model ----
(***************************************************************************)
(* node-filesaver: a Filesaver instance (src/src/Filesaver.js) holding an  *)
(* alias table `folders` and the `safenames` option, with its operations   *)
(* folder, put and add running against a filesystem.                       *)
(*                                                                         *)
(* Strings that the code splits, joins or resolves (paths, file names) are *)
(* sequences of one-character strings; alias keys, which the code only     *)
(* tests and uses as keys, are TLA+ strings.  A JavaScript argument is a   *)
(* record [t |-> typeof, v |-> value].                                     *)
(***************************************************************************)
EXTENDS Integers, Sequences, FiniteSets, TLC

VARIABLES
    fs,            \* the filesystem: absolute path -> Dir or a file's content
    folders,       \* this.folders: alias key -> registered folder path
    safenames,     \* this.safenames
    mkdirs,        \* mkdirp calls in flight (absolute paths)
    existsQ,       \* folder() calls waiting for their fs.exists callback
    renames,       \* put/add calls whose fs.rename is in flight
    last,          \* the put/add call that completed most recently
    lastFolder,    \* the folder() call that completed most recently
    streak,        \* filenames returned by the adds completed since the start
    nops,          \* number of put, add and folder calls issued
    refs           \* the folder table as others see it: through the folders
                   \* object given to the constructor, and from a second
                   \* instance

vars == <<fs, folders, safenames, mkdirs, existsQ, renames, last, lastFolder,
          streak, nops, refs>>

----------------------------------------------------------------------------
(* Bounds of the model *)

\* put, add and folder calls issued in a run where deposits are followed up
MaxOps == 3

\* put and add calls issued in a run over every argument shape
MaxArgCalls == 2

\* add calls issued in a run where calls overlap, and the calls that may be
\* in flight at once
MaxRaceCalls == 2

MaxInFlight == 2

\* put and add calls issued in a run over default and suffixed names
MaxNameCalls == 3

----------------------------------------------------------------------------
(* JavaScript values *)

Str(s) == [t |-> "string", v |-> s]

Undef == [t |-> "undefined", v |-> <<>>]

Num == [t |-> "number", v |-> <<"5">>]

Fn == [t |-> "function", v |-> <<>>]

KeyStr(k) == [t |-> "string", v |-> k]

KeyNum == [t |-> "number", v |-> "5"]

\* ToBoolean of a path-like argument: undefined and '' are falsy
Truthy(x) ==
    \/ x.t = "function"
    \/ x.t = "number"
    \/ x.t = "string" /\ x.v # <<>>

\* ToBoolean of an alias key
KeyTruthy(k) ==
    \/ k.t = "number"
    \/ k.t = "string" /\ k.v # ""

----------------------------------------------------------------------------
(* String.prototype.split, Array.prototype.join *)

RECURSIVE Split(_, _)
Split(s, sep) ==
    IF \A i \in 1..Len(s) : s[i] # sep
    THEN <<s>>
    ELSE LET i == CHOOSE k \in 1..Len(s) :
                      s[k] = sep /\ \A j \in 1..(k - 1) : s[j] # sep
         IN  <<SubSeq(s, 1, i - 1)>> \o Split(SubSeq(s, i + 1, Len(s)), sep)

RECURSIVE Join(_, _)
Join(parts, sep) ==
    IF Len(parts) = 0 THEN <<>>
    ELSE IF Len(parts) = 1 THEN parts[1]
    ELSE parts[1] \o <<sep>> \o Join(Tail(parts), sep)

\* array.pop(): the last element; array.shift(): the first
Last(parts) == parts[Len(parts)]

Front(parts) == SubSeq(parts, 1, Len(parts) - 1)

----------------------------------------------------------------------------
(* path.resolve and the process's working directory *)

Cwd == <<"/">>

IsAbsolute(p) == Len(p) > 0 /\ p[1] = "/"

\* normalizeArray: drop '' and '.', let '..' remove the segment before it
RECURSIVE NormalizeParts(_, _)
NormalizeParts(parts, acc) ==
    IF Len(parts) = 0 THEN acc
    ELSE LET h == Head(parts)
         IN  IF h = <<>> \/ h = <<".">>
             THEN NormalizeParts(Tail(parts), acc)
             ELSE IF h = <<".", ".">>
             THEN NormalizeParts(Tail(parts),
                      IF Len(acc) > 0 THEN Front(acc) ELSE acc)
             ELSE NormalizeParts(Tail(parts), Append(acc, h))

\* path.resolve(from, to): the rightmost absolute argument starts the path,
\* the working directory does when there is none
Resolve(from, to) ==
    LET joined == IF IsAbsolute(to) THEN to
                  ELSE IF IsAbsolute(from) THEN from \o <<"/">> \o to
                  ELSE Cwd \o <<"/">> \o from \o <<"/">> \o to
    IN  <<"/">> \o Join(NormalizeParts(Split(joined, "/"), <<>>), "/")

\* the absolute path the filesystem calls act on
Abs(p) == Resolve(<<>>, p)

Parent(p) == Abs(Join(Front(Split(p, "/")), "/"))

----------------------------------------------------------------------------
(* The filesystem: fs.existsSync / fs.exists, fs.rename, mkdirp *)

\* what the filesystem holds at a directory's path; a regular file's content
\* is a natural number
Dir == -1

\* fs.existsSync(p), fs.exists(p): the empty path never exists
Exists(f, p) == p # <<>> /\ Abs(p) \in DOMAIN f

IsDir(f, p) == Exists(f, p) /\ f[Abs(p)] = Dir

\* a rename that refuses to replace a file at the destination
RenameError_noReplace(f, old, new) ==
    IF ~Exists(f, old) THEN "ENOENT"
    ELSE IF new = <<>> \/ Parent(new) \notin DOMAIN f THEN "ENOENT"
    ELSE IF Abs(old) # Abs(new) /\ Exists(f, new) THEN "EEXIST"
    ELSE ""

\* rename(2) on a regular file: the error code, or "" when it succeeds
RenameError(f, old, new) ==
    IF ~Exists(f, old) THEN "ENOENT"
    ELSE IF new = <<>> \/ Parent(new) \notin DOMAIN f THEN "ENOENT"
    ELSE IF f[Parent(new)] # Dir THEN "ENOTDIR"
    ELSE IF Abs(old) = Abs(new) THEN ""
    ELSE IF IsDir(f, new) THEN "EISDIR"
    ELSE ""

\* a move that copies: the destination is replaced and the source stays
RenameApply_copying(f, old, new) ==
    [q \in DOMAIN f \cup {Abs(new)} |-> IF q = Abs(new) THEN f[Abs(old)] ELSE f[q]]

\* the filesystem after a rename that succeeded: the destination is replaced
RenameApply(f, old, new) ==
    LET o == Abs(old)
        n == Abs(new)
    IN  [q \in (DOMAIN f \ {o}) \cup {n} |-> IF q = n THEN f[o] ELSE f[q]]

\* the directories mkdirp(p) walks through, the root first
Ancestors(p) ==
    LET parts == NormalizeParts(Split(Abs(p), "/"), <<>>)
    IN  {<<"/">> \o Join(SubSeq(parts, 1, k), "/") : k \in 0..Len(parts)}

\* the filesystem after mkdirp(p) has run: every missing directory on the way
\* is made, unless a regular file is in the way (the error is dropped)
MkdirpApply(f, p) ==
    IF \E a \in Ancestors(p) : a \in DOMAIN f /\ f[a] # Dir
    THEN f
    ELSE [q \in DOMAIN f \cup Ancestors(p) |->
              IF q \in DOMAIN f THEN f[q] ELSE Dir]

----------------------------------------------------------------------------
(* tools.safename and tools.finalName (./tools, required at Filesaver.js:5) *)

SafeChars ==
    {"a", "b", "c", "d", "i", "j", "t", "x", "-", "_",
     "0", "1", "2", "3", "4", "5", "6", "7", "8", "9"}

\* NameSanitizer: strips every character that is not alphanumeric, '-' or '_'
safename(s) == SelectSeq(s, LAMBDA c : c \in SafeChars)

Digit(n) == <<"0", "1", "2", "3", "4", "5", "6", "7", "8", "9">>[n + 1]

RECURSIVE Decimal(_)
Decimal(n) == IF n < 10 THEN <<Digit(n)>>
              ELSE Decimal(n \div 10) \o <<Digit(n % 10)>>

\* directory/basename_N.extension of a candidate path: the extension is what
\* follows the last dot of the final segment, empty when there is no dot
Suffixed(route, n) ==
    LET segs  == Split(route, "/")
        name  == Last(segs)
        parts == Split(name, ".")
        base  == IF Len(parts) = 1 THEN name ELSE Join(Front(parts), ".")
        ext   == IF Len(parts) = 1 THEN <<>> ELSE <<".">> \o Last(parts)
    IN  Join(Append(Front(segs), base \o <<"_">> \o Decimal(n) \o ext), "/")

\* CollisionResolver: the candidate itself when it is free, else the first
\* free directory/basename_N.extension counting N from 1
finalName(f, route) ==
    IF ~Exists(f, route) THEN route
    ELSE LET N == CHOOSE n \in 1..(Cardinality(DOMAIN f) + 1) :
                      /\ ~Exists(f, Suffixed(route, n))
                      /\ \A m \in 1..(n - 1) : Exists(f, Suffixed(route, m))
         IN  Suffixed(route, N)

----------------------------------------------------------------------------
(* Filesaver.js: checkSafeName, checker, move *)

\* the last segment of the route is split at its dots, the part before the
\* first dot goes through tools.safename, and [basename, ext].join('.') puts
\* it back: ext is the array of the remaining parts, which join() turns into
\* a string with commas between them
checkSafeName(safe, route) ==
    IF safe
    THEN LET segs     == Split(route, "/")
             name     == Last(segs)
             ext      == Split(name, ".")
             basename == safename(Head(ext))
             newname  == Join(<<basename, Join(Tail(ext), ",")>>, ".")
         IN  Join(Append(Front(segs), newname), "/")
    ELSE route

\* keys every plain object inherits from Object.prototype
ProtoKeys == {"constructor"}

\* this.folders[folder] for a string key
Lookup(tbl, key) ==
    IF key \in DOMAIN tbl THEN Str(tbl[key])
    ELSE IF key \in ProtoKeys THEN Fn
    ELSE Undef

Basename(p) == Last(Split(p, "/"))

\* checker as it would be if the default name were oldPath as a whole
shiftArgs_wholePath(oldPath, third, fourth) ==
    IF (~Truthy(fourth) /\ third.t = "function") \/ ~Truthy(third)
    THEN [threw |-> oldPath.t # "string",
          newPath |-> IF oldPath.t # "string" THEN Undef ELSE Str(oldPath.v),
          cb |-> IF third.t = "function" THEN "user" ELSE "noop"]
    ELSE [threw |-> FALSE, newPath |-> third,
          cb |-> IF fourth.t = "function" THEN "user" ELSE "none"]

\* lines 54-60: the optional arguments.  cb is the function the rest of the
\* call reports to: "user" the caller's callback, "noop" the empty function
\* of line 59, "none" undefined.  oldPath.split throws on a non-string.
shiftArgs(oldPath, third, fourth) ==
    IF ~Truthy(fourth) /\ third.t = "function"
    THEN IF oldPath.t # "string"
         THEN [threw |-> TRUE, newPath |-> Undef, cb |-> "user"]
         ELSE [threw |-> FALSE, newPath |-> Str(Basename(oldPath.v)), cb |-> "user"]
    ELSE IF ~Truthy(third)
    THEN IF oldPath.t # "string"
         THEN [threw |-> TRUE, newPath |-> Undef, cb |-> "noop"]
         ELSE [threw |-> FALSE, newPath |-> Str(Basename(oldPath.v)), cb |-> "noop"]
    ELSE [threw |-> FALSE, newPath |-> third,
          cb |-> IF fourth.t = "function" THEN "user" ELSE "none"]

\* callback(err) inside checker: calling undefined throws a TypeError
Rejected(cb, err) ==
    [ok |-> FALSE, threw |-> cb = "none", cb |-> cb, err |-> err,
     calls |-> IF cb = "user" THEN 1 ELSE 0, newPath |-> <<>>]

Thrown(cb) ==
    [ok |-> FALSE, threw |-> TRUE, cb |-> cb, err |-> "",
     calls |-> 0, newPath |-> <<>>]

\* checker.call(this, folder, oldPath, newPath, callback) on filesystem f
checker(f, tbl, safe, folder, oldPath, third, fourth) ==
    LET a == shiftArgs(oldPath, third, fourth)
    IN  IF a.threw THEN Thrown(a.cb)
        ELSE IF /\ KeyTruthy(folder) /\ Truthy(oldPath)
                /\ folder.t = "string" /\ oldPath.t = "string"
                /\ Exists(f, oldPath.v)
        THEN LET dir == Lookup(tbl, folder.v)
             IN  IF Truthy(dir)
                 THEN IF dir.t # "string" \/ a.newPath.t # "string"
                      THEN Thrown(a.cb)     \* path.resolve: TypeError
                      ELSE [ok |-> TRUE, threw |-> FALSE, cb |-> a.cb,
                            err |-> "", calls |-> 0,
                            newPath |-> checkSafeName(safe,
                                            Resolve(dir.v, a.newPath.v))]
                 ELSE Rejected(a.cb, "invalid folder")
        ELSE Rejected(a.cb, "folder or origin not valid")

\* the payload move hands to the callback when fs.rename succeeded
moveData(newPath) ==
    [filename |-> Basename(newPath), filepath |-> newPath]

NoData == [filename |-> <<>>, filepath |-> <<>>]

\* move(oldPath, newPath, callback): the fs.rename it issues
move(oldPath, newPath) == [old |-> oldPath, new |-> newPath]

\* put as it would be if it went through tools.finalName like add
putNewPath_resolving(f, data) == finalName(f, data.newPath)

\* the destination put moves to: the checked path itself (line 178)
putNewPath(f, data) == data.newPath

\* add as it would be without tools.finalName
addNewPath_unresolved(f, data) == data.newPath

\* add as it would be if it always took the first suffixed name
addNewPath_suffixFirst(f, data) == finalName(f, Suffixed(data.newPath, 1))

\* add as it would be if it counted on from a number the name ends in
addNewPath_incrementing(f, data) ==
    LET segs  == Split(data.newPath, "/")
        name  == Last(segs)
        parts == Split(name, ".")
        base  == IF Len(parts) = 1 THEN name ELSE Join(Front(parts), ".")
        ext   == IF Len(parts) = 1 THEN <<>> ELSE <<".">> \o Last(parts)
        k     == Len(base)
        counted == /\ k >= 3 /\ base[k - 1] = "_"
                   /\ base[k] \in {Digit(n) : n \in 0..8}
        next  == Digit((CHOOSE n \in 0..8 : Digit(n) = base[k]) + 1)
    IN  IF Exists(f, data.newPath) /\ counted
        THEN finalName(f, Join(Append(Front(segs),
                                      SubSeq(base, 1, k - 1) \o <<next>> \o ext),
                               "/"))
        ELSE finalName(f, data.newPath)

\* the destination add moves to: tools.finalName of the checked path (line 212)
addNewPath(f, data) == finalName(f, data.newPath)

\* folder() as it would be if it refused an empty folderPath
folderRegister_skipEmpty(tbl, name, folderPath) ==
    IF folderPath = <<>> THEN tbl
    ELSE [k \in DOMAIN tbl \cup {name} |->
              IF k = name THEN folderPath ELSE tbl[k]]

\* folder() as it would be if an alias kept the first path registered for it
folderRegister_keepFirst(tbl, name, folderPath) ==
    IF name \in DOMAIN tbl THEN tbl
    ELSE [k \in DOMAIN tbl \cup {name} |->
              IF k = name THEN folderPath ELSE tbl[k]]

\* folder(): this.folders[name] = folderPath (line 145)
folderRegister(tbl, name, folderPath) ==
    [k \in DOMAIN tbl \cup {name} |-> IF k = name THEN folderPath ELSE tbl[k]]

----------------------------------------------------------------------------
(* Paths and arguments the calls are made with *)

ImagesDir == <<".", "/", "i">>

DocsDir == <<"/", "d">>

TmpFile == <<"/", "t", "/", "a", ".", "j">>

MissingFile == <<"/", "t", "/", "x">>

StoredFile == <<"/", "i", "/", "a", ".", "j">>

Names ==
    { <<"a", ".", "j">>,                  \* one dot
      <<"a">>,                            \* no dot
      <<"a", ".", "b", ".", "j">>,        \* several dots
      <<"a", "!", ".", "j">>,             \* a character safename strips
      <<".", ".", "/", "a">> }            \* a parent-directory segment

\* aliasKey: registered, registered later by folder(), unknown, inherited
\* from Object.prototype, empty, not a string
KeyArgs ==
    { KeyStr("images"), KeyStr("docs"), KeyStr("nope"), KeyStr("constructor"),
      KeyStr(""), KeyNum }

\* sourcePath: a temporary file, a file already stored in the images folder,
\* a path that does not exist, the empty string, not a string
OldPathArgs ==
    { Str(TmpFile), Str(StoredFile), Str(MissingFile), Str(<<>>), Num }

\* (newPath, callback) as the caller passes them
Shapes ==
    { <<Str(n), Fn>> : n \in Names }         \* desiredFilename, callback
      \cup { <<Str(<<"a", ".", "j">>), Undef>>, \* desiredFilename, no callback
             <<Fn, Undef>>,                  \* callback in desiredFilename's place
             <<Undef, Fn>>,                  \* undefined, then the callback
             <<Undef, Undef>> }              \* neither

----------------------------------------------------------------------------
(* State after construction: new Filesaver({folders: {images: './i'},       *)
(* safenames: ...}).  The constructor calls mkdirp for a folder that is     *)
(* missing and returns; mkdirp does its work later.                         *)

NoCall ==
    [op |-> "none", folder |-> KeyStr(""), oldPath |-> Undef, third |-> Undef,
     fourth |-> Undef, tbl |-> <<>>, pre |-> <<>>, post |-> <<>>,
     resolved |-> <<>>,
     target |-> <<>>, cb |-> "none", calls |-> 0, err |-> "", data |-> NoData,
     threw |-> FALSE, moved |-> FALSE]

NoFolderCall ==
    [name |-> "", path |-> <<>>, fired |-> FALSE, err |-> "", done |-> FALSE]

BaseFs ==
    [q \in {<<"/">>, <<"/", "t">>, TmpFile} |->
        IF q = TmpFile THEN 0 ELSE Dir]

\* the folders object the caller gives to the constructor
ConfigFolders == [k \in {"images"} |-> ImagesDir]

\* this.folders = options.folders || {} (line 108) keeps the caller's object
\* itself, not a copy.  A second instance is constructed too: from the same
\* folders object (sameObject), or from another object with the same content
Constructed(sameObject) ==
    /\ folders = ConfigFolders
    /\ refs = [options |-> ConfigFolders, other |-> ConfigFolders,
               sameObject |-> sameObject]

\* what a holder of a reference sees after this.folders[name] = folderPath
\* (line 145): the assignment changes the object in place
Seen(view, sameObject, tbl) == IF sameObject THEN tbl ELSE view

Init ==
    /\ safenames \in BOOLEAN
    /\ Constructed(TRUE)
    /\ \/ /\ fs = MkdirpApply(BaseFs, ImagesDir)
          /\ mkdirs = {}
       \/ /\ fs = BaseFs
          /\ mkdirs = {ImagesDir}
    /\ existsQ = {}
    /\ renames = {}
    /\ last = NoCall
    /\ lastFolder = NoFolderCall
    /\ streak = [live |-> TRUE, key |-> <<>>, names |-> <<>>]
    /\ nops = 0

----------------------------------------------------------------------------
(* Bookkeeping of completed calls *)

DirEmpty(f, dir) == \A q \in DOMAIN f : q = <<"/">> \/ Parent(q) # dir

Broken == [live |-> FALSE, key |-> <<>>, names |-> <<>>]

\* the run of successful adds made with the same arguments, begun on an
\* empty folder; any other completed call ends it
StreakAfter(c) ==
    LET key == <<c.folder, c.oldPath, c.third>>
    IN  IF /\ streak.live /\ c.op = "add" /\ c.moved /\ c.third.t = "string"
           /\ IF streak.names = <<>>
              THEN DirEmpty(c.pre, Parent(c.resolved))
              ELSE streak.key = key
        THEN [live |-> TRUE, key |-> key,
              names |-> Append(streak.names, c.data.filename)]
        ELSE Broken

----------------------------------------------------------------------------
(* put and add *)

\* calls issued whose completion callback has not run yet
InFlight == Cardinality(renames) + Cardinality(existsQ)

\* the call's arguments and the state it was made in, kept with the call:
\* third and fourth are what the caller passed as newPath and callback
CallRecord(op, folder, oldPath, third, fourth) ==
    [op |-> op, folder |-> folder, oldPath |-> oldPath, third |-> third,
     fourth |-> fourth, tbl |-> folders, pre |-> fs]

\* what put and add share: when checker returned data (data.ok), move starts
\* fs.rename towards target; otherwise the call is over, checker having
\* called the callback or thrown
Issue(max, lim, call, data, target) ==
    /\ nops < max
    /\ InFlight < lim
    /\ nops' = nops + 1
    /\ IF data.ok
       THEN /\ renames' = renames \cup
                  {call @@ [id |-> nops + 1, resolved |-> data.newPath,
                            req |-> move(call.oldPath.v, target),
                            cb |-> data.cb]}
            /\ UNCHANGED <<last, streak>>
       ELSE LET c == call @@ [post |-> fs, resolved |-> <<>>, target |-> <<>>,
                              cb |-> data.cb, calls |-> data.calls,
                              err |-> data.err, data |-> NoData,
                              threw |-> data.threw, moved |-> FALSE]
            IN  /\ last' = c
                /\ streak' = StreakAfter(c)
                /\ UNCHANGED renames
    /\ UNCHANGED <<fs, folders, safenames, mkdirs, existsQ, lastFolder, refs>>

\* put(folder, oldPath, newPath, callback), lines 174-182.  max: the calls a
\* run may issue; lim: the calls it may have in flight at once
Put(max, lim, folder, oldPath, newPath, callback) ==
    LET data == checker(fs, folders, safenames, folder, oldPath, newPath,
                        callback)
    IN  Issue(max, lim, CallRecord("put", folder, oldPath, newPath, callback),
              data, putNewPath(fs, data))

\* add(folder, oldPath, newPath, callback), lines 206-215
Add(max, lim, folder, oldPath, newPath, callback) ==
    LET data == checker(fs, folders, safenames, folder, oldPath, newPath,
                        callback)
    IN  Issue(max, lim, CallRecord("add", folder, oldPath, newPath, callback),
              data, addNewPath(fs, data))

\* fs.rename runs and its callback (lines 17-26) reports to the call's
\* callback: the error, or null and moveData; calling an undefined callback
\* throws a TypeError
RenameDone(r) ==
    LET err  == RenameError(fs, r.req.old, r.req.new)
        post == IF err = "" THEN RenameApply(fs, r.req.old, r.req.new) ELSE fs
        c    == [op |-> r.op, folder |-> r.folder, oldPath |-> r.oldPath,
                 third |-> r.third, fourth |-> r.fourth, tbl |-> r.tbl,
                 pre |-> r.pre, post |-> post, resolved |-> r.resolved,
                 target |-> r.req.new, cb |-> r.cb,
                 calls |-> IF r.cb = "user" THEN 1 ELSE 0, err |-> err,
                 data |-> IF err = "" THEN moveData(r.req.new) ELSE NoData,
                 threw |-> r.cb = "none", moved |-> err = ""]
    IN  /\ r \in renames
        /\ fs' = post
        /\ renames' = renames \ {r}
        /\ last' = c
        /\ streak' = StreakAfter(c)
        /\ UNCHANGED <<folders, safenames, mkdirs, existsQ, lastFolder, nops,
                       refs>>

----------------------------------------------------------------------------
(* folder *)

\* folder(name, folderPath, callback): fs.exists is started (line 139)
Folder(max, lim, name, folderPath, hasCb) ==
    /\ nops < max
    /\ InFlight < lim
    /\ nops' = nops + 1
    /\ existsQ' = existsQ \cup {[id |-> nops + 1, name |-> name,
                                 path |-> folderPath, hasCb |-> hasCb]}
    /\ UNCHANGED <<fs, folders, safenames, mkdirs, renames, last, lastFolder,
                   streak, refs>>

\* the fs.exists callback (lines 139-150): mkdirp is started when the path
\* is missing, the alias is stored, the optional callback is called, with no
\* argument (err stays empty)
FolderExistsDone(r) ==
    /\ r \in existsQ
    /\ existsQ' = existsQ \ {r}
    /\ mkdirs' = IF Exists(fs, r.path) THEN mkdirs ELSE mkdirs \cup {r.path}
    /\ folders' = folderRegister(folders, r.name, r.path)
    /\ lastFolder' = [name |-> r.name, path |-> r.path, fired |-> r.hasCb,
                      err |-> "", done |-> TRUE]
    /\ refs' = [options |-> Seen(refs.options, TRUE, folders'),
                other |-> Seen(refs.other, refs.sameObject, folders'),
                sameObject |-> refs.sameObject]
    /\ streak' = Broken
    /\ UNCHANGED <<fs, safenames, renames, last, nops>>

\* a mkdirp started by the constructor or by folder() does its work
MkdirpDone(p) ==
    /\ p \in mkdirs
    /\ mkdirs' = mkdirs \ {p}
    /\ fs' = MkdirpApply(fs, p)
    /\ UNCHANGED <<folders, safenames, existsQ, renames, last, lastFolder,
                   streak, nops, refs>>

---------------------------------------------------------------------------------------------------------------------------------------------------
(* The caller's side: the temporary file is written again, with a content *)
(* no earlier file had                                                    *)

FreshContent == nops + 1

CreateSource ==
    /\ ~Exists(fs, TmpFile)
    /\ fs' = [q \in DOMAIN fs \cup {TmpFile} |->
                 IF q = TmpFile THEN FreshContent ELSE fs[q]]
    /\ UNCHANGED <<folders, safenames, mkdirs, existsQ, renames, last,
                   lastFolder, streak, nops, refs>>

----------------------------------------------------------------------------
(* Spec: deposits followed up.  Every call completes (its callback runs)   *)
(* before the next one is issued; the mkdirp calls that the constructor    *)
(* and folder() started run alongside.                                     *)

DepositKeys == {KeyStr("images"), KeyStr("docs")}

DepositPaths == {Str(TmpFile), Str(StoredFile)}

DepositShapes == {<<Str(<<"a", ".", "j">>), Fn>>, <<Str(<<"a">>), Fn>>}

\* folder(name, folderPath, callback given?): a new alias, a new alias with
\* the empty path, an alias registered again without a callback
FolderArgs ==
    { <<"docs", DocsDir, TRUE>>, <<"docs", <<>>, TRUE>>,
      <<"images", DocsDir, FALSE>> }

Next ==
    \/ \E k \in DepositKeys, o \in DepositPaths, sh \in DepositShapes :
           Put(MaxOps, 1, k, o, sh[1], sh[2])
    \/ \E k \in DepositKeys, o \in DepositPaths, sh \in DepositShapes :
           Add(MaxOps, 1, k, o, sh[1], sh[2])
    \/ \E r \in renames : RenameDone(r)
    \/ \E a \in FolderArgs : Folder(MaxOps, 1, a[1], a[2], a[3])
    \/ \E r \in existsQ : FolderExistsDone(r)
    \/ \E p \in mkdirs : MkdirpDone(p)
    \/ CreateSource

Spec == Init /\ [][Next]_vars

----------------------------------------------------------------------------
(* ArgSpec: put and add over every argument shape *)

ArgNext ==
    \/ \E k \in KeyArgs, o \in OldPathArgs, sh \in Shapes :
           Put(MaxArgCalls, 1, k, o, sh[1], sh[2])
    \/ \E k \in KeyArgs, o \in OldPathArgs, sh \in Shapes :
           Add(MaxArgCalls, 1, k, o, sh[1], sh[2])
    \/ \E r \in renames : RenameDone(r)
    \/ \E p \in mkdirs : MkdirpDone(p)
    \/ CreateSource

ArgSpec == Init /\ [][ArgNext]_vars

----------------------------------------------------------------------------
(* RaceSpec: add calls that overlap.  A call may be issued while the       *)
(* fs.rename of an earlier one has not completed.                          *)

RaceShapes == {<<Str(<<"a", ".", "j">>), Fn>>, <<Str(<<"a">>), Fn>>}

RaceNext ==
    \/ \E sh \in RaceShapes :
           Add(MaxRaceCalls, MaxInFlight, KeyStr("images"), Str(TmpFile),
               sh[1], sh[2])
    \/ \E r \in renames : RenameDone(r)
    \/ \E p \in mkdirs : MkdirpDone(p)
    \/ CreateSource

RaceSpec == Init /\ [][RaceNext]_vars

----------------------------------------------------------------------------
(* NameSpec: deposits under the default name and under a name that ends in *)
(* a number, each call completing before the next is issued                *)

SuffixedName == <<"a", "_", "1", ".", "j">>

NameShapes ==
    { <<Str(SuffixedName), Fn>>,          \* a name ending in _1
      <<Str(<<"a", ".", "j">>), Fn>>,     \* the source's own name, explicitly
      <<Fn, Undef>>,                      \* callback in desiredFilename's place
      <<Undef, Undef>> }                  \* nothing passed

NameNext ==
    \/ \E sh \in NameShapes :
           Put(MaxNameCalls, 1, KeyStr("images"), Str(TmpFile), sh[1], sh[2])
    \/ \E sh \in NameShapes :
           Add(MaxNameCalls, 1, KeyStr("images"), Str(TmpFile), sh[1], sh[2])
    \/ \E r \in renames : RenameDone(r)
    \/ \E p \in mkdirs : MkdirpDone(p)
    \/ CreateSource

NameSpec == Init /\ [][NameNext]_vars

----------------------------------------------------------------------------
(* InstanceSpec: folder() calls on one instance while a second instance    *)
(* and the caller hold their references to a folder table                  *)

InstanceInit ==
    /\ safenames \in BOOLEAN
    /\ \E sameObject \in BOOLEAN : Constructed(sameObject)
    /\ fs = MkdirpApply(BaseFs, ImagesDir)
    /\ mkdirs = {}
    /\ existsQ = {}
    /\ renames = {}
    /\ last = NoCall
    /\ lastFolder = NoFolderCall
    /\ streak = [live |-> TRUE, key |-> <<>>, names |-> <<>>]
    /\ nops = 0

InstanceNext ==
    \/ \E a \in FolderArgs : Folder(MaxOps, MaxInFlight, a[1], a[2], a[3])
    \/ \E r \in existsQ : FolderExistsDone(r)
    \/ \E p \in mkdirs : MkdirpDone(p)

InstanceSpec == InstanceInit /\ [][InstanceNext]_vars

----------------------------------------------------------------------------
(* What the properties below say about a completed call *)

Done == last.op # "none"

\* the caller passed a callback, as fourth or as third argument
HasCallback == last.third.t = "function" \/ last.fourth.t = "function"

\* the directory registered for the call's alias when the call was made
AliasDir == Abs(last.tbl[last.folder.v])

Source == Abs(last.oldPath.v)

\* the files directly inside directory dir of filesystem f
FilesIn(f, dir) == {q \in DOMAIN f : q # <<"/">> /\ Parent(q) = dir /\ f[q] # Dir}

----------------------------------------------------------------------------
(* C1 *)

\* C1 as stated: a successful add deposits the file at a path that did not
\* exist when add was called, and every file that was in the aliased folder
\* is still there with the same content.
C1_AddKeepsEveryFile ==
    (last.op = "add" /\ last.moved) =>
        /\ ~Exists(last.pre, last.target)
        /\ \A q \in FilesIn(last.pre, AliasDir) :
               q \in DOMAIN last.post /\ last.post[q] = last.pre[q]

\* C1: a successful add deposits the file at a path that did not exist when
\* add was called, and every file that was in the aliased folder, other than
\* the source file itself when it lay in that folder, is still there with the
\* same content.
C1_AddNeverOverwrites ==
    (last.op = "add" /\ last.moved) =>
        /\ ~Exists(last.pre, last.target)
        /\ last.post[Abs(last.target)] = last.pre[Source]
        /\ \A q \in FilesIn(last.pre, AliasDir) \ {Source} :
               q \in DOMAIN last.post /\ last.post[q] = last.pre[q]

\* an add whose desired name was taken, by a file with another content
C1_Witness ==
    /\ last.op = "add" /\ last.moved
    /\ Exists(last.pre, last.resolved)
    /\ Source \notin FilesIn(last.pre, AliasDir)
    /\ last.pre[Abs(last.resolved)] # last.pre[Source]

----------------------------------------------------------------------------
(* C2 *)

\* C2 as stated: after a successful put the target path holds the content
\* the source had and the source path no longer exists.
C2_PutRemovesSource ==
    (last.op = "put" /\ last.moved) =>
        /\ last.data.filepath = last.resolved
        /\ last.post[Abs(last.resolved)] = last.pre[Source]
        /\ Source \notin DOMAIN last.post

\* C2: after a successful put the target path (the desired name inside the
\* aliased folder) holds the content the source had, whether or not a file
\* was there before, and the source path no longer exists unless it is the
\* target path itself.
C2_PutOverwrites ==
    (last.op = "put" /\ last.moved) =>
        /\ last.data.filepath = last.resolved
        /\ last.post[Abs(last.resolved)] = last.pre[Source]
        /\ Source # Abs(last.resolved) => Source \notin DOMAIN last.post

\* a put that replaced a file holding another content
C2_Witness ==
    /\ last.op = "put" /\ last.moved
    /\ Exists(last.pre, last.resolved)
    /\ Source # Abs(last.resolved)
    /\ last.pre[Abs(last.resolved)] # last.pre[Source]
    /\ last.post[Abs(last.resolved)] = last.pre[Source]

----------------------------------------------------------------------------
(* C6 *)

\* C6: once the constructor has returned, and once the fs.exists callback of
\* folder() has stored an alias and called the completion callback, the
\* directory of every alias in the folder table exists.
C6_RegisteredDirsExist ==
    \A k \in DOMAIN folders : IsDir(fs, folders[k])

----------------------------------------------------------------------------
(* C7 *)

\* C7: starting from an empty aliased folder, k successive completed adds of
\* the same source path under the same desired filename return name.ext,
\* name_1.ext, ..., name_(k-1).ext in that order (name.ext being the desired
\* filename as checker passes it on, the desired filename itself when
\* safenames is off), and these k files are the files of the folder
\* afterwards.
C7_SuffixSequence ==
    (streak.live /\ streak.names # <<>>) =>
        LET k == Len(streak.names)
        IN  /\ last.op = "add"
            /\ streak.names[1] = Basename(last.resolved)
            /\ ~safenames => streak.names[1] = last.third.v
            /\ \A i \in 2..k :
                   streak.names[i] = Basename(Suffixed(last.resolved, i - 1))
            /\ FilesIn(last.post, AliasDir) =
                   {Resolve(AliasDir, streak.names[i]) : i \in 1..k}
            /\ Cardinality(FilesIn(last.post, AliasDir)) = k

\* three adds in a row, the third one returning the name with suffix _2
C7_Witness ==
    /\ streak.live
    /\ Len(streak.names) = 3
    /\ last.data.filename = Basename(Suffixed(last.resolved, 2))

----------------------------------------------------------------------------
(* C8 *)

\* C8 as stated: folder(name, '') reports an error and stores no mapping for
\* name.
C8_EmptyPathRejected ==
    (lastFolder.done /\ lastFolder.path = <<>>) =>
        /\ lastFolder.err # ""
        /\ lastFolder.name \notin DOMAIN folders

\* C8: folder(name, '') is not refused: it reports no error (the callback is
\* called without an argument) and stores the mapping name -> '' in the
\* folder table.
C8_EmptyPathStored ==
    (lastFolder.done /\ lastFolder.path = <<>>) =>
        /\ lastFolder.err = ""
        /\ lastFolder.name \in DOMAIN folders
        /\ folders[lastFolder.name] = <<>>

\* folder('docs', '', callback) has called its callback
C8_Witness ==
    /\ lastFolder.done /\ lastFolder.path = <<>> /\ lastFolder.fired
    /\ "docs" \in DOMAIN folders

----------------------------------------------------------------------------
(* C3 *)

\* C3: every completed put or add that was given a callback, in any argument
\* shape, has invoked that callback exactly once, with an error or with a
\* success payload and not both.
C3_CallbackExactlyOnce ==
    (Done /\ HasCallback) =>
        /\ last.calls = 1
        /\ (last.err = "") # (last.data = NoData)

----------------------------------------------------------------------------
(* C4 *)

\* aliasKey or sourcePath is not a non-empty string, or sourcePath does not
\* exist
InvalidArguments ==
    \/ ~(last.folder.t = "string" /\ last.folder.v # "")
    \/ ~(last.oldPath.t = "string" /\ last.oldPath.v # <<>>)
    \/ ~Exists(last.pre, last.oldPath.v)

\* C4: every completed put or add with invalid arguments and a callback has
\* delivered 'folder or origin not valid' through the callback, has thrown
\* nothing and has moved nothing.
C4_InvalidArgumentsReported ==
    (Done /\ HasCallback /\ InvalidArguments) =>
        /\ last.calls = 1
        /\ last.err = "folder or origin not valid"
        /\ ~last.threw
        /\ ~last.moved /\ last.post = last.pre

----------------------------------------------------------------------------
(* C5 *)

\* the alias is a non-empty string that the folder table does not hold, and
\* the source is an existing file
UnknownAlias ==
    /\ last.folder.t = "string" /\ last.folder.v # ""
    /\ last.folder.v \notin DOMAIN last.tbl
    /\ last.oldPath.t = "string" /\ Exists(last.pre, last.oldPath.v)

\* C5: every completed put or add with an existing source file, an alias
\* that is not registered and a callback has failed with 'invalid folder',
\* and the source file is left in place.
C5_UnknownAliasRejected ==
    (Done /\ HasCallback /\ UnknownAlias) =>
        /\ last.calls = 1
        /\ last.err = "invalid folder"
        /\ ~last.threw
        /\ last.post = last.pre

----------------------------------------------------------------------------
(* C9 *)

\* the part of a file name before its first dot, and the rest, dot included
Stem(name) == Head(Split(name, "."))

ExtensionText(name) == SubSeq(name, Len(Stem(name)) + 1, Len(name))

\* C9: with safenames on, the file name that put/add pass on for a desired
\* filename is the sanitized stem followed by the extension text as it was
\* given; a name without a dot gets no dot.
C9_ExtensionPreserved ==
    (Done /\ safenames /\ last.moved /\ last.third.t = "string") =>
        Basename(last.resolved) =
            safename(Stem(last.third.v)) \o ExtensionText(last.third.v)

----------------------------------------------------------------------------
(* C10 *)

\* C10: a completed put or add that was given a desiredFilename and no
\* callback has raised no exception.
C10_CallbackOptional ==
    (Done /\ last.third.t = "string" /\ last.third.v # <<>>
          /\ last.fourth.t = "undefined") =>
        ~last.threw

----------------------------------------------------------------------------
(* C11 *)

\* the step in which a folder() call completes
RegistrationStep == existsQ' # existsQ /\ nops' = nops

\* the completed put or add call saw the folder table as it is now, as every
\* call issued since the most recent folder() call completed did
SawTable == Done /\ last.tbl = folders

\* the directory the target path of the completed call c lies in
TargetDir(c) == Parent(Abs(c.target))

\* C11: when a folder(name, path) call completes, the table maps name to that
\* path and every other alias to what it was mapped to before; a put or add
\* that sees this table and moves a file deposits it in the path the table
\* has for its alias, which is path when the alias is name.
C11_LastRegistrationWins ==
    [][/\ RegistrationStep =>
             /\ DOMAIN folders' = DOMAIN folders \cup {lastFolder'.name}
             /\ folders'[lastFolder'.name] = lastFolder'.path
             /\ \A k \in DOMAIN folders \ {lastFolder'.name} :
                    folders'[k] = folders[k]
       /\ (SawTable' /\ last'.moved) =>
             /\ TargetDir(last') = Abs(folders'[last'.folder.v])
             /\ (lastFolder'.done /\ last'.folder.v = lastFolder'.name) =>
                    TargetDir(last') = Abs(lastFolder'.path)
    ]_vars

\* images, registered by the constructor as ./i, was registered again as /d,
\* and a deposit for images that saw the new table went to /d
C11_Witness ==
    /\ SawTable
    /\ lastFolder.done
    /\ lastFolder.name = "images"
    /\ lastFolder.path = DocsDir
    /\ last.tbl["images"] = DocsDir
    /\ last.moved
    /\ last.folder.v = "images"
    /\ TargetDir(last) = Abs(DocsDir)

----------------------------------------------------------------------------
(* C12 *)

\* a step of a put or add call: the call itself, or its fs.rename completing
PutAddStep ==
    \/ nops' # nops /\ existsQ' = existsQ
    \/ renames' # renames

\* the step leaves the path as it is
Kept(q) == q \in DOMAIN fs /\ q \in DOMAIN fs' /\ fs'[q] = fs[q]

\* C12: a step of put or add leaves the folder table alone, starts no mkdirp
\* and creates no directory; it changes the filesystem only when it completes
\* a call without an error, and then the target path holds what the source
\* held, the source path is gone unless it is the target, and every other
\* path is as it was.
C12_PutAddFrame ==
    [][PutAddStep =>
          LET src == Abs(last'.oldPath.v)
              tgt == Abs(last'.target)
          IN  /\ folders' = folders
              /\ mkdirs' = mkdirs
              /\ \A q \in DOMAIN fs' : fs'[q] = Dir => Kept(q)
              /\ fs' # fs => last' # last /\ last'.moved /\ last'.err = ""
              /\ (last' # last /\ last'.moved) =>
                    /\ src \in DOMAIN fs
                    /\ tgt \in DOMAIN fs' /\ fs'[tgt] = fs[src]
                    /\ src = tgt \/ src \notin DOMAIN fs'
              /\ \A q \in (DOMAIN fs \cup DOMAIN fs') \ {src, tgt} : Kept(q)
    ]_vars

\* a put that was not the first call has replaced a file that was at its
\* target path
C12_Witness ==
    /\ last.op = "put"
    /\ last.moved
    /\ nops > 1
    /\ Abs(last.target) \in DOMAIN last.pre
    /\ Source # Abs(last.target)
    /\ last.post # last.pre

----------------------------------------------------------------------------
(* C13 *)

\* C13: the file that a successful put or add reports lies directly inside
\* the directory registered for the alias, whatever the desired filename and
\* the safenames setting, and the reported filename is the last segment of
\* the reported filepath.
C13_Containment ==
    (Done /\ last.moved) =>
        /\ Parent(Abs(last.data.filepath)) = AliasDir
        /\ last.data.filename = Last(Split(last.data.filepath, "/"))

----------------------------------------------------------------------------
(* C14 *)

\* the add r, still in flight, chose the target path that the add completed
\* last chose, for the same alias and desired filename, and the file that add
\* deposited is there
Racing(r) ==
    /\ r.op = "add" /\ last.op = "add"
    /\ last.moved
    /\ r.folder = last.folder /\ r.third = last.third
    /\ Abs(r.req.new) = Abs(last.target)
    /\ Abs(last.target) \in DOMAIN fs

\* C14: when two overlapping adds with the same alias and desired filename
\* have chosen the same target path and the first has deposited its file,
\* the completion of the second replaces that file with its own source, so
\* that the folder gains no file, or fails with ENOENT when its source is
\* gone, leaving the filesystem as it was.
C14_RaceLosesDeposit ==
    [][\A r \in renames :
          (Racing(r) /\ r \notin renames') =>
              IF Abs(r.req.old) \in DOMAIN fs
              THEN /\ last'.moved
                   /\ fs'[Abs(r.req.new)] = fs[Abs(r.req.old)]
                   /\ FilesIn(fs', Parent(Abs(r.req.new)))
                         = FilesIn(fs, Parent(Abs(r.req.new)))
              ELSE /\ last'.err = "ENOENT"
                   /\ fs' = fs
    ]_vars

\* two adds of the same name were issued, both moved a file, and the folder
\* holds one file: the first deposit (content 0) is nowhere any more
C14_Witness ==
    /\ nops = 2 /\ renames = {}
    /\ last.op = "add" /\ last.moved
    /\ Abs(last.target) \notin DOMAIN last.pre
    /\ FilesIn(fs, AliasDir) = {Abs(last.target)}
    /\ fs[Abs(last.target)] # 0
    /\ \A q \in DOMAIN fs : fs[q] # 0

----------------------------------------------------------------------------
(* C15 *)

\* the desiredFilename was omitted: the callback is in its place, or nothing
\* was passed
NameOmitted ==
    /\ Done
    /\ last.third.t \in {"function", "undefined"}
    /\ last.fourth.t = "undefined"

\* what checker returns for the same call with the last segment of
\* sourcePath passed as desiredFilename
ExplicitName ==
    checker(last.pre, last.tbl, safenames, last.folder, last.oldPath,
            Str(Last(Split(last.oldPath.v, "/"))), Fn)

\* C15: a put or add without desiredFilename ends as the same call with the
\* last segment of sourcePath as desiredFilename would: with the same error,
\* or with the same checked path and the same target path, which with
\* safenames off is that segment inside the aliased directory.
C15_DefaultName ==
    NameOmitted =>
        IF ExplicitName.ok
        THEN /\ last.resolved = ExplicitName.newPath
             /\ last.target = IF last.op = "put"
                              THEN putNewPath(last.pre, ExplicitName)
                              ELSE addNewPath(last.pre, ExplicitName)
             /\ ~safenames =>
                   /\ Parent(last.resolved) = AliasDir
                   /\ Basename(last.resolved) = Basename(last.oldPath.v)
        ELSE /\ ~last.moved
             /\ last.err = ExplicitName.err

\* a file was deposited under the default name by a call given the callback
\* alone
C15_Witness ==
    /\ NameOmitted
    /\ last.third.t = "function"
    /\ last.moved
    /\ last.data.filename = Basename(last.oldPath.v)
    /\ Parent(Abs(last.data.filepath)) = AliasDir

----------------------------------------------------------------------------
(* C16 *)

\* a_1_N.j, the name a_1.j with a counter appended
Counted(n) == <<"a", "_", "1", "_">> \o Decimal(n) \o <<".", "j">>

\* an add of the name a_1.j found a file at the path checker returned
SuffixedCollision ==
    /\ Done /\ last.op = "add" /\ last.moved
    /\ last.third = Str(SuffixedName)
    /\ Abs(last.resolved) \in DOMAIN last.pre

----------------------------------------------------------------------------
(* C17 *)

\* C17: whatever folder() calls are made on one instance, the folders object
\* the caller gave to the constructor and the alias table of a second
\* instance stay as they were at construction.
C17_InstancesIsolated ==
    /\ refs.options = ConfigFolders
    /\ refs.other = ConfigFolders

====
